---- MODULE Spec2Model ----
(***************************************************************************)
(* Drill control loop of the discharge firmware (discharge-firmware/main.c):*)
(* exec_command_drill with its two state machines tick_ed_drill and        *)
(* tick_md_drill, the adaptive feed-wait controller, the short-circuit      *)
(* abort check, the statistics and the busy-wait tick scheduler.            *)
(* One LoopIter step is one iteration of the while loop of                  *)
(* exec_command_drill; Finish is the code after the loop.                   *)
(* The motor driver (md.c) and the discharge board driver (ed.c) are       *)
(* modelled by the pins and the status words they keep.                    *)
(***************************************************************************)
EXTENDS Integers, Sequences, FiniteSets, TLC

VARIABLES
  md,            \* md_drill_t md
  ed,            \* ed_drill_t ed
  stats,         \* drill_stats_t stats
  ig_time,       \* uint16_t ig_time of the last loop iteration
  gate,          \* level last commanded by ed_unsafe_set_gate
  tick,          \* int32_t tick
  pump_counter,  \* int32_t pump_counter
  pc,            \* "loop": inside the while loop; "done": exec_command_drill returned;
                 \* "wait" and "woke": in and after the busy-wait; "cmd", "feed":
                 \* a console command, a feed tick on its own
  outcome,       \* "none" | "completed" | "aborted"
  fwd_steps,     \* number of md_step calls in the commanded direction
  rev_steps,     \* number of md_step calls against the commanded direction
  n_dump,        \* number of drill_print_stats calls
  pulses,        \* history of the normal ignitions: see note_pulse
  drv,           \* md.c: boards[] and the levels of the CSN and DIR pins
  edb,           \* ed.c: mode and the levels of the MODE and SENSE_GATE pins
  call,          \* what the last driver call of a console command did: see Traffic
  cyc,           \* the last pull-push cycle of the feed: see StartCycle
  ign,           \* the current ignition attempt and the last ignition: see note_ignition
  clock          \* the microsecond clock as the busy-wait reads it: see NoClock

vars == <<md, ed, stats, ig_time, gate, tick, pump_counter, pc, outcome,
          fwd_steps, rev_steps, n_dump, pulses, drv, edb, call, cyc, ign, clock>>

(***************************************************************************)
(* Program constants.                                                      *)
(***************************************************************************)
MD_DRILL_OK == 0
MD_DRILL_PULL == 1
MD_DRILL_PUSH == 2

ED_DRILL_WAITING_IGNITION == 1
ED_DRILL_DISCHARGING == 2
ED_DRILL_COOLDOWN == 3
ED_DRILL_SHORT_COOLDOWN == 4

MD_MAX_WAIT_US == 5000
MD_MIN_WAIT_US == 25
ED_IG_US_TARGET == 100

ed_duty_pct == 25
ed_pulse_dur_us == 100
ED_SHORT_COOLDOWN_US == 1000
ED_IG_US_SHORT_THRESH == 5
ED_IG_US_MAX_WAIT == 500

\* the literals of exec_command_drill
HARD_ABORT_SHORTS == 1000
RETRACT_SHORTS == 10
PUMP_INTERVAL == 5000000
DUMP_INTERVAL == 5000000

\* config.h is not part of the sources; 25 us per step is commented as
\* 0.78 mm/sec and as about 1 rotation/sec at 256 microsteps of 1.8 degrees,
\* i.e. 200 * 256 steps per mm.
MD_STEPS_PER_MM == 51200

\* IG_TIME_TIMEOUT is the value tick_ed_drill reports on an ignition timeout.
IG_TIME_TIMEOUT == 10000

(***************************************************************************)
(* Fixed-width integers of the C code.                                     *)
(***************************************************************************)
\* int32_t values are TLC's own integers (32 bit, signed). A uint32_t holds
\* the same value for a non-negative operand; a negative operand converts to
\* a value of the upper half of the range, all of which are represented by
\* UINT32_HIGH: the program only compares them with smaller numbers.
UINT32_HIGH == 2147483647
INT32_MAX == 2147483647
U16(x) == x % 65536
U32(x) == IF x < 0 THEN UINT32_HIGH ELSE x
I16(x) == ((x + 32768) % 65536) - 32768

\* uint16_t ed_cooldown_us = (ed_pulse_dur_us * 100) / ed_duty_pct - ed_pulse_dur_us
ed_cooldown_us == U16(((ed_pulse_dur_us * 100) \div ed_duty_pct) - ed_pulse_dur_us)

\* const uint32_t md_initial_wait_us = 1e6 / (MD_INITIAL_FEED_RATE * MD_STEPS_PER_MM),
\* with MD_INITIAL_FEED_RATE = 0.05 = 5 / 100
md_initial_wait_us == (1000000 * 100) \div (5 * MD_STEPS_PER_MM)

\* const uint32_t MD_RETRACT_DIST_STEPS = 5e-3 * MD_STEPS_PER_MM
MD_RETRACT_DIST_STEPS == (5 * MD_STEPS_PER_MM) \div 1000

\* uint32_t PUMP_STEPS = md.steps + (uint32_t)(1.5 * MD_STEPS_PER_MM)
PUMP_STEPS(m) == U32(m.steps + ((3 * MD_STEPS_PER_MM) \div 2))

\* ed_unsafe_set_gate(on): the discharge gate follows the commanded level.
ed_unsafe_set_gate(on) == on

(***************************************************************************)
(* Statistics.                                                             *)
(***************************************************************************)
reset_ig_delay(s) ==
  [s EXCEPT !.accum_ig_delay = 0, !.cnt_ig_delay = 0,
            !.max_ig_delay = 0, !.min_ig_delay = 65535]

init_drill_stats ==
  reset_ig_delay([n_tick_miss |-> 0, n_short |-> 0, n_pulse |-> 0, n_retract |-> 0,
                  last_dump_tick |-> 0, max_successive_short |-> 0,
                  accum_ig_delay |-> 0, cnt_ig_delay |-> 0,
                  max_ig_delay |-> 0, min_ig_delay |-> 0])

record_ig_delay(s, ig_delay) ==
  [s EXCEPT !.accum_ig_delay = @ + ig_delay,
            !.cnt_ig_delay = @ + 1,
            !.max_ig_delay = IF ig_delay > @ THEN ig_delay ELSE @,
            !.min_ig_delay = IF ig_delay < @ THEN ig_delay ELSE @]

\* Mutant of drill_print_stats: max_successive_short is not restarted.
drill_print_stats_MaxKept(t, s) ==
  [reset_ig_delay(s) EXCEPT !.last_dump_tick = t]

drill_print_stats(t, s) ==
  [reset_ig_delay(s) EXCEPT !.max_successive_short = 0, !.last_dump_tick = t]

(***************************************************************************)
(* Feed state machine: md_to_pullpush, init_md_drill, tick_md_drill.       *)
(* A tick yields the new md and the md_step calls it made, counted by      *)
(* direction relative to the commanded one.                                *)
(***************************************************************************)
md_to_pullpush(m, pull_steps, push_steps, wait_us) ==
  [m EXCEPT !.state = MD_DRILL_PULL,
            !.pullpush_curr_steps = 0,
            !.pullpush_wait_us = wait_us,
            !.pull_target_steps = pull_steps,
            !.push_target_steps = push_steps]

\* The pullpush_* fields are not written by init_md_drill; they are read only
\* after md_to_pullpush has written all of them, so their start value is moot.
init_md_drill(is_plus, steps) ==
  [board_ix |-> 0, is_plus |-> is_plus, steps |-> steps,
   state |-> MD_DRILL_OK, wait_us |-> md_initial_wait_us, pos |-> 0, timer |-> 0,
   pullpush_wait_us |-> 0, pullpush_curr_steps |-> 0,
   pull_target_steps |-> 0, push_target_steps |-> 0]

\* Mutant of md_tick_ok: one step call advances pos by two.
md_tick_ok_PosByTwo(m) ==
  IF U32(m.timer) >= m.wait_us
    THEN [md |-> [m EXCEPT !.timer = 0, !.pos = @ + 2], fwd |-> 1, rev |-> 0]
    ELSE [md |-> m, fwd |-> 0, rev |-> 0]

\* Mutant of md_tick_ok: the step is made but pos is not counted.
md_tick_ok_PosKept(m) ==
  IF U32(m.timer) >= m.wait_us
    THEN [md |-> [m EXCEPT !.timer = 0], fwd |-> 1, rev |-> 0]
    ELSE [md |-> m, fwd |-> 0, rev |-> 0]

\* case MD_DRILL_OK. md->timer (int32_t) is compared with md->wait_us as uint32_t.
md_tick_ok(m) ==
  IF U32(m.timer) >= m.wait_us
    THEN [md |-> [m EXCEPT !.timer = 0, !.pos = @ + 1], fwd |-> 1, rev |-> 0]
    ELSE [md |-> m, fwd |-> 0, rev |-> 0]

\* Mutant of md_tick_pull: the position is counted up on a reverse step.
md_tick_pull_PosUp(m) ==
  IF m.pullpush_curr_steps >= m.pull_target_steps
    THEN [md |-> [m EXCEPT !.state = MD_DRILL_PUSH, !.timer = 0,
                           !.push_target_steps = 0],
          fwd |-> 0, rev |-> 0]
    ELSE IF U32(m.timer) >= m.pullpush_wait_us
      THEN [md |-> [m EXCEPT !.timer = 0, !.pos = @ + 1,
                             !.pullpush_curr_steps = @ + 1],
            fwd |-> 0, rev |-> 1]
      ELSE [md |-> m, fwd |-> 0, rev |-> 0]

\* case MD_DRILL_PULL
md_tick_pull(m) ==
  IF m.pullpush_curr_steps >= m.pull_target_steps
    THEN [md |-> [m EXCEPT !.state = MD_DRILL_PUSH, !.timer = 0,
                           !.push_target_steps = 0],
          fwd |-> 0, rev |-> 0]
    ELSE IF U32(m.timer) >= m.pullpush_wait_us
      THEN [md |-> [m EXCEPT !.timer = 0, !.pos = @ - 1,
                             !.pullpush_curr_steps = @ + 1],
            fwd |-> 0, rev |-> 1]
      ELSE [md |-> m, fwd |-> 0, rev |-> 0]

\* case MD_DRILL_PUSH
md_tick_push(m) ==
  IF m.pullpush_curr_steps >= m.push_target_steps
    THEN [md |-> [m EXCEPT !.state = MD_DRILL_OK, !.timer = 0],
          fwd |-> 0, rev |-> 0]
    ELSE IF U32(m.timer) >= m.pullpush_wait_us
      THEN [md |-> [m EXCEPT !.timer = 0, !.pos = @ + 1,
                             !.pullpush_curr_steps = @ + 1],
            fwd |-> 1, rev |-> 0]
      ELSE [md |-> m, fwd |-> 0, rev |-> 0]

tick_md_drill(m) ==
  LET r == CASE m.state = MD_DRILL_OK   -> md_tick_ok(m)
             [] m.state = MD_DRILL_PULL -> md_tick_pull(m)
             [] m.state = MD_DRILL_PUSH -> md_tick_push(m)
  IN  [r EXCEPT !.md.timer = @ + 1]

(***************************************************************************)
(* Discharge state machine: init_ed_drill, tick_ed_drill.                  *)
(* A tick takes ed, stats, the gate level and det, the value               *)
(* ed_unsafe_get_detect() returns if it is read in this tick, and yields   *)
(* the new ed, stats, gate and the ig_time output (uint16_t).              *)
(***************************************************************************)
\* init_ed_drill writes state and successive_shorts only: ed.timer keeps the
\* indeterminate value t0 of the stack slot.
init_ed_drill(t0) ==
  [state |-> ED_DRILL_WAITING_IGNITION, successive_shorts |-> 0, timer |-> t0]

\* "too long; reset"
ed_ignition_timeout(r) ==
  [r EXCEPT !.ed.state = ED_DRILL_WAITING_IGNITION,
            !.ed.timer = 0,
            !.ed.successive_shorts = 0,
            !.ig_time = U16(IG_TIME_TIMEOUT)]

\* Mutant of ed_short_detected: max_successive_short is not raised.
ed_short_detected_MaxKept(r) ==
  [r EXCEPT !.ed.state = ED_DRILL_SHORT_COOLDOWN,
            !.ed.timer = 0,
            !.ed.successive_shorts = I16(@ + 1),
            !.stats.n_short = U32(@ + 1)]

\* Mutant of ed_short_detected: successive_shorts is not incremented.
ed_short_detected_NoCount(r) ==
  [r EXCEPT !.ed.state = ED_DRILL_SHORT_COOLDOWN,
            !.ed.timer = 0,
            !.stats.n_short = U32(@ + 1)]

\* "short detected; turn off immediately and cooldown"
ed_short_detected(r) ==
  LET ss == I16(r.ed.successive_shorts + 1)
  IN  [r EXCEPT !.ed.state = ED_DRILL_SHORT_COOLDOWN,
                !.ed.timer = 0,
                !.ed.successive_shorts = ss,
                !.stats.max_successive_short =
                    IF U32(ss) > @ THEN U32(ss) ELSE @,
                !.stats.n_short = U32(@ + 1)]

\* "normal discharge"
ed_normal_discharge(r) ==
  [r EXCEPT !.ed.state = ED_DRILL_DISCHARGING,
            !.ed.timer = 0,
            !.ed.successive_shorts = 0,
            !.stats = record_ig_delay([@ EXCEPT !.n_pulse = U32(@ + 1)], r.ig_time)]

\* Mutant of ed_waiting_ignition: the detector is read before the timeout test.
ed_waiting_ignition_DetectFirst(r, det) ==
  LET g == [r EXCEPT !.gate = ed_unsafe_set_gate(TRUE)]
  IN  IF det
        THEN LET d == [g EXCEPT !.ig_time = U16(g.ed.timer)]
             IN  IF g.ed.timer <= ED_IG_US_SHORT_THRESH
                   THEN ed_short_detected(d)
                   ELSE ed_normal_discharge(d)
        ELSE IF g.ed.timer >= ED_IG_US_MAX_WAIT
          THEN ed_ignition_timeout(g)
          ELSE g

\* case ED_DRILL_WAITING_IGNITION (r.ig_time is already the "-1" of line 356)
ed_waiting_ignition(r, det) ==
  LET g == [r EXCEPT !.gate = ed_unsafe_set_gate(TRUE)]
  IN  IF g.ed.timer >= ED_IG_US_MAX_WAIT
        THEN ed_ignition_timeout(g)
        ELSE IF det
          THEN LET d == [g EXCEPT !.ig_time = U16(g.ed.timer)]
               IN  IF g.ed.timer <= ED_IG_US_SHORT_THRESH
                     THEN ed_short_detected(d)
                     ELSE ed_normal_discharge(d)
          ELSE g

\* Mutant of ed_discharging: the pulse ends one tick after the duration.
ed_discharging_Late(r) ==
  IF r.ed.timer > ed_pulse_dur_us
    THEN [r EXCEPT !.gate = ed_unsafe_set_gate(FALSE),
                   !.ed.state = ED_DRILL_COOLDOWN,
                   !.ed.timer = 0]
    ELSE [r EXCEPT !.gate = ed_unsafe_set_gate(TRUE)]

\* case ED_DRILL_DISCHARGING
ed_discharging(r) ==
  IF r.ed.timer >= ed_pulse_dur_us
    THEN [r EXCEPT !.gate = ed_unsafe_set_gate(FALSE),
                   !.ed.state = ED_DRILL_COOLDOWN,
                   !.ed.timer = 0]
    ELSE [r EXCEPT !.gate = ed_unsafe_set_gate(TRUE)]

\* case ED_DRILL_COOLDOWN
ed_cooldown(r) ==
  LET g == [r EXCEPT !.gate = ed_unsafe_set_gate(FALSE)]
  IN  IF g.ed.timer >= ed_cooldown_us
        THEN [g EXCEPT !.ed.state = ED_DRILL_WAITING_IGNITION]
        ELSE g

\* Mutant of ed_short_cooldown: the dwell is one tick short of the normal one.
ed_short_cooldown_Brief(r) ==
  LET g == [r EXCEPT !.gate = ed_unsafe_set_gate(FALSE)]
  IN  IF g.ed.timer >= ed_cooldown_us - 1
        THEN [g EXCEPT !.ed.state = ED_DRILL_WAITING_IGNITION]
        ELSE g

\* Mutant of ed_short_cooldown: the end of the dwell clears successive_shorts.
ed_short_cooldown_ResetsShorts(r) ==
  LET g == [r EXCEPT !.gate = ed_unsafe_set_gate(FALSE)]
  IN  IF g.ed.timer >= ED_SHORT_COOLDOWN_US
        THEN [g EXCEPT !.ed.state = ED_DRILL_WAITING_IGNITION,
                       !.ed.successive_shorts = 0]
        ELSE g

\* case ED_DRILL_SHORT_COOLDOWN
ed_short_cooldown(r) ==
  LET g == [r EXCEPT !.gate = ed_unsafe_set_gate(FALSE)]
  IN  IF g.ed.timer >= ED_SHORT_COOLDOWN_US
        THEN [g EXCEPT !.ed.state = ED_DRILL_WAITING_IGNITION]
        ELSE g

tick_ed_drill(e, s, g, det) ==
  LET r0 == [ed |-> e, stats |-> s, gate |-> g, ig_time |-> U16(-1)]
      r1 == CASE e.state = ED_DRILL_WAITING_IGNITION -> ed_waiting_ignition(r0, det)
              [] e.state = ED_DRILL_DISCHARGING      -> ed_discharging(r0)
              [] e.state = ED_DRILL_COOLDOWN         -> ed_cooldown(r0)
              [] e.state = ED_DRILL_SHORT_COOLDOWN   -> ed_short_cooldown(r0)
  IN  [r1 EXCEPT !.ed.timer = @ + 1]

(***************************************************************************)
(* Motor driver, md.c. A driver function works on d: boards[], the levels  *)
(* of the three CSN pins and of the DIR pin, and what the call has done so *)
(* far: spi, the datagrams clocked over the bus, pulses, the STEP pulses,  *)
(* and dirw, the writes of the DIR pin.                                    *)
(***************************************************************************)
MD_NUM_BOARDS == 3

MD_OK == 0
MD_NO_BOARD == 1
MD_NO_MOTOR == 2
MD_OVERTEMP == 3
MD_SPI_ERROR == 4

REG_GCONF == 0
REG_GSTAT == 1
REG_CHOPCONF == 108
REG_DRV_STATUS == 111

\* if (addr >= 0x80)
ADDR_INVALID == 128

\* spi_write_read_blocking(MD_SPI, tx_data, rx_data, 5)
DATAGRAM_LEN == 5

Boards == 0 .. MD_NUM_BOARDS - 1

\* x & (mask != 0) for a non-negative x: C compares before it masks, so the
\* operand of & is 1 for every non-zero mask and 0 for a zero one.
and_ne0(x, mask) == IF mask # 0 THEN x % 2 ELSE 0

\* md_bus_init: "Keep CSN pins high (select no chip)", DIR low. boards[] is
\* a zero-initialised global.
md_bus_init ==
  [boards |-> [i \in Boards |-> MD_OK],
   csn |-> [i \in Boards |-> TRUE],
   dir |-> FALSE,
   spi |-> 0, pulses |-> 0, dirw |-> 0]

\* count is the value spi_write_read_blocking returns for this datagram.
md_send_datagram_blocking(d, md_index, addr, count) ==
  IF addr >= ADDR_INVALID
    THEN [d |-> d, ok |-> FALSE]
    ELSE IF md_index \notin Boards
      THEN [d |-> d, ok |-> FALSE]
      ELSE [d |-> [d EXCEPT !.csn[md_index] = FALSE, !.spi = @ + 1],
            ok |-> (count = DATAGRAM_LEN)]

\* hw = [c1, c2, value]: the counts of the two datagrams and the register
\* value the chip returns with the second one.
read_register(d, md_index, addr, hw) ==
  LET r1 == md_send_datagram_blocking(d, md_index, addr, hw.c1)
  IN  IF ~r1.ok
        THEN [d |-> r1.d, ok |-> FALSE, value |-> 0]
        ELSE LET r2 == md_send_datagram_blocking(r1.d, md_index, REG_GCONF, hw.c2)
             IN  [d |-> r2.d, ok |-> r2.ok, value |-> IF r2.ok THEN hw.value ELSE 0]

write_register(d, md_index, addr, count) ==
  md_send_datagram_blocking(d, md_index, addr, count)

\* The body of the for loop of md_init for board i; h = [status, chop, wcount]
\* are the replies to the two reads and the count of the write.
md_init_board(d, i, h) ==
  LET d0 == [d EXCEPT !.boards[i] = MD_NO_BOARD]
      r1 == read_register(d0, i, REG_DRV_STATUS, h.status)
      olb == and_ne0(r1.value, 1073741824) # 0
      ola == and_ne0(r1.value, 536870912) # 0
      r2 == read_register(r1.d, i, REG_CHOPCONF, h.chop)
      r3 == write_register(r2.d, i, REG_CHOPCONF, h.wcount)
  IN  IF ~r1.ok THEN r1.d
      ELSE IF olb \/ ola THEN [r1.d EXCEPT !.boards[i] = MD_NO_MOTOR]
      ELSE IF ~r2.ok THEN r2.d
      ELSE IF ~r3.ok THEN r3.d
      ELSE [r3.d EXCEPT !.boards[i] = MD_OK]

RECURSIVE md_init_from(_, _, _)
md_init_from(d, i, hs) ==
  IF i < MD_NUM_BOARDS
    THEN md_init_from(md_init_board(d, i, hs[i]), i + 1, hs)
    ELSE d

md_init(hs) == md_init_from(md_bus_init, 0, hs)

md_get_status(d, md_index, hw) ==
  IF md_index > MD_NUM_BOARDS - 1
    THEN [d |-> d, ret |-> MD_NO_BOARD]
    ELSE IF d.boards[md_index] # MD_OK
      THEN [d |-> d, ret |-> d.boards[md_index]]
      ELSE LET r == read_register(d, md_index, REG_GSTAT, hw)
               d1 == IF r.ok
                       THEN IF and_ne0(r.value, 6) # 0
                              THEN [r.d EXCEPT !.boards[md_index] = MD_OVERTEMP]
                              ELSE r.d
                       ELSE [r.d EXCEPT !.boards[md_index] = MD_SPI_ERROR]
           IN  [d |-> d1, ret |-> d1.boards[md_index]]

\* Mutant of md_step: the board status is not looked at.
md_step_AnyStatus(d, md_index, plus) ==
  IF md_index > MD_NUM_BOARDS - 1
    THEN d
    ELSE [d EXCEPT !.dir = ~plus, !.dirw = @ + 1, !.pulses = @ + 1]

\* The STEP pin is raised and lowered again: one pulse, the pin ends low.
md_step(d, md_index, plus) ==
  IF md_index > MD_NUM_BOARDS - 1
    THEN d
    ELSE IF d.boards[md_index] # MD_OK
      THEN d
      ELSE [d EXCEPT !.dir = ~plus, !.dirw = @ + 1, !.pulses = @ + 1]

\* Mutant of check_stall: the board status is not looked at.
check_stall_AnyStatus(d, md_index, hw) ==
  IF md_index > MD_NUM_BOARDS - 1
    THEN [d |-> d, ret |-> 0]
    ELSE LET r == read_register(d, md_index, REG_DRV_STATUS, hw)
         IN  IF ~r.ok
               THEN [d |-> [r.d EXCEPT !.boards[md_index] = MD_SPI_ERROR], ret |-> 0]
               ELSE [d |-> r.d, ret |-> and_ne0(r.value, 16777216)]

\* The bool result as 0 or 1.
check_stall(d, md_index, hw) ==
  IF md_index > MD_NUM_BOARDS - 1
    THEN [d |-> d, ret |-> 0]
    ELSE IF d.boards[md_index] # MD_OK
      THEN [d |-> d, ret |-> 0]
      ELSE LET r == read_register(d, md_index, REG_DRV_STATUS, hw)
           IN  IF ~r.ok
                 THEN [d |-> [r.d EXCEPT !.boards[md_index] = MD_SPI_ERROR],
                       ret |-> 0]
                 ELSE [d |-> r.d, ret |-> and_ne0(r.value, 16777216)]

\* The part of d that outlives a call, and d on entry of a call.
Pins(d) == [boards |-> d.boards, csn |-> d.csn, dir |-> d.dir]
Enter(p) == [boards |-> p.boards, csn |-> p.csn, dir |-> p.dir,
             spi |-> 0, pulses |-> 0, dirw |-> 0]

(***************************************************************************)
(* Discharge board driver, ed.c: e = [mode, mode_pin, sense_gate].         *)
(***************************************************************************)
ED_UNKNOWN == 0
ED_SENSE == 1
ED_DISCHARGE == 2

\* const int64_t MAX_WAIT_US = 100 * 1000 * 1000
MAX_WAIT_US == 100000000

\* sense_curr is the level read from CTRL_ED_SENSE_CURR_PIN.
ed_init(sense_curr) ==
  [mode |-> IF sense_curr THEN ED_UNKNOWN ELSE ED_SENSE,
   mode_pin |-> FALSE, sense_gate |-> FALSE]

ed_available(e) == e.mode # ED_UNKNOWN

\* delay is the time of the last clock reading of the loop, which ends with
\* the first reading of at least MAX_WAIT_US; gatew tells whether the call
\* wrote the sense gate pin, which it leaves low.
ed_proximity(e, delay) ==
  IF e.mode # ED_SENSE
    THEN [e |-> e, ret |-> -1, gatew |-> FALSE]
    ELSE [e |-> [e EXCEPT !.sense_gate = FALSE], ret |-> delay, gatew |-> TRUE]

\* Mutant of ed_to_discharge: the mode is not looked at.
ed_to_discharge_Unchecked(e) ==
  [e EXCEPT !.mode_pin = TRUE, !.mode = ED_DISCHARGE]

ed_to_discharge(e) ==
  IF e.mode = ED_UNKNOWN
    THEN e
    ELSE [e EXCEPT !.mode_pin = TRUE, !.mode = ED_DISCHARGE]

ed_to_sense(e) ==
  IF e.mode = ED_UNKNOWN
    THEN e
    ELSE [e EXCEPT !.mode_pin = FALSE, !.mode = ED_SENSE]

(***************************************************************************)
(* exec_command_drill: the steps of one loop iteration after the two       *)
(* state machines have been advanced.                                      *)
(***************************************************************************)
\* Mutant of safety_abort: the abort fires at the first short.
safety_abort_AtFirstShort(e) == e.successive_shorts >= 1

\* "CONTINUED short; abort": if (ed.successive_shorts >= 1000)
safety_abort(e) == e.successive_shorts >= HARD_ABORT_SHORTS

\* if (ig_time >= 0), with ig_time a uint16_t
ig_time_valid(ig) == ig >= 0

\* Mutant of adapt_wait_us: a delay equal to the target counts as below it.
adapt_wait_us_TargetIsBelow(w, ig) ==
  IF ig <= ED_IG_US_TARGET
    THEN LET w1 == U32(w + 1)
         IN  IF w1 >= MD_MAX_WAIT_US THEN MD_MAX_WAIT_US ELSE w1
    ELSE LET w1 == U32(w - 1)
         IN  IF w1 < MD_MIN_WAIT_US THEN MD_MIN_WAIT_US ELSE w1

\* Mutant of adapt_wait_us: a delay equal to the target changes nothing.
adapt_wait_us_DeadBand(w, ig) ==
  IF ig = ED_IG_US_TARGET
    THEN w
    ELSE IF ig < ED_IG_US_TARGET
      THEN LET w1 == U32(w + 1)
           IN  IF w1 >= MD_MAX_WAIT_US THEN MD_MAX_WAIT_US ELSE w1
      ELSE LET w1 == U32(w - 1)
           IN  IF w1 < MD_MIN_WAIT_US THEN MD_MIN_WAIT_US ELSE w1

\* Mutant of adapt_wait_us: the lower clamp is missing.
adapt_wait_us_NoMinClamp(w, ig) ==
  IF ig < ED_IG_US_TARGET
    THEN LET w1 == U32(w + 1)
         IN  IF w1 >= MD_MAX_WAIT_US THEN MD_MAX_WAIT_US ELSE w1
    ELSE U32(w - 1)

\* The adaptive controller: the body of if (ig_time >= 0), on the uint32_t wait_us.
adapt_wait_us(w, ig) ==
  IF ig < ED_IG_US_TARGET
    THEN LET w1 == U32(w + 1)
         IN  IF w1 >= MD_MAX_WAIT_US THEN MD_MAX_WAIT_US ELSE w1
    ELSE LET w1 == U32(w - 1)
         IN  IF w1 < MD_MIN_WAIT_US THEN MD_MIN_WAIT_US ELSE w1

control_wait_us(w, ig) == IF ig_time_valid(ig) THEN adapt_wait_us(w, ig) ELSE w

\* if (md.state == MD_DRILL_OK) { if (ed.successive_shorts >= 10) {...} }
retract_check(r) ==
  IF r.md.state = MD_DRILL_OK /\ r.ed.successive_shorts >= RETRACT_SHORTS
    THEN [r EXCEPT !.md = md_to_pullpush(@, MD_RETRACT_DIST_STEPS, 0, MD_MIN_WAIT_US),
                   !.stats.n_retract = U32(@ + 1)]
    ELSE r

\* Mutant of pump_check: the state of the feed is not looked at.
pump_check_AnyState(r) ==
  IF r.pump_counter >= PUMP_INTERVAL
    THEN [r EXCEPT !.md = md_to_pullpush(@, PUMP_STEPS(r.md), PUMP_STEPS(r.md),
                                         MD_MIN_WAIT_US),
                   !.pump_counter = 0]
    ELSE r

\* if (pump_counter >= PUMP_INTERVAL && md.state == MD_DRILL_OK)
pump_check(r) ==
  IF r.pump_counter >= PUMP_INTERVAL /\ r.md.state = MD_DRILL_OK
    THEN [r EXCEPT !.md = md_to_pullpush(@, PUMP_STEPS(r.md), PUMP_STEPS(r.md),
                                         MD_MIN_WAIT_US),
                   !.pump_counter = 0]
    ELSE r

\* Mutant of dump_check: the state of the discharge FSM is not looked at.
dump_check_AnyState(r) ==
  IF r.tick > r.stats.last_dump_tick + DUMP_INTERVAL
    THEN [r EXCEPT !.stats = drill_print_stats(r.tick, @), !.n_dump = @ + 1]
    ELSE r

\* "Debug dump every 5sec."
dump_check(r) ==
  IF r.ed.state = ED_DRILL_COOLDOWN /\ r.tick > r.stats.last_dump_tick + DUMP_INTERVAL
    THEN [r EXCEPT !.stats = drill_print_stats(r.tick, @), !.n_dump = @ + 1]
    ELSE r

\* Mutant of tick_scheduler: a reading of tick + 1 counts as a miss.
tick_scheduler_MissAtOne(r, new_tick) ==
  [r EXCEPT !.stats.n_tick_miss = IF new_tick >= r.tick + 1 THEN @ + 1 ELSE @,
            !.tick = new_tick]

\* Mutant of tick_scheduler: tick is not assigned.
tick_scheduler_TickKept(r, new_tick) ==
  [r EXCEPT !.stats.n_tick_miss = IF new_tick > r.tick + 1 THEN @ + 1 ELSE @]

\* "wait until 1us passes": the busy-wait leaves with the first new_tick > tick
\* it reads from the clock.
tick_scheduler(r, new_tick) ==
  [r EXCEPT !.stats.n_tick_miss = IF new_tick > r.tick + 1 THEN @ + 1 ELSE @,
            !.tick = new_tick]

(***************************************************************************)
(* The clock. absolute_time_diff_us returns the microseconds since t0 as   *)
(* an int64_t; a time is kept as hi * 2^31 + lo with lo in 0 .. 2^31 - 1.  *)
(* clock.now is the time of the last reading of the busy-wait, clock.at    *)
(* the time of the reading that gave tick its value, clock.polls the       *)
(* number of readings made.                                                *)
(***************************************************************************)
NoClock == [now |-> [hi |-> 0, lo |-> 0], at |-> [hi |-> 0, lo |-> 0], polls |-> 0]

us_add(t, d) ==
  IF d > INT32_MAX - t.lo
    THEN [hi |-> t.hi + 1, lo |-> t.lo - (INT32_MAX - d) - 1]
    ELSE [hi |-> t.hi, lo |-> t.lo + d]

us_later(a, b) == a.hi > b.hi \/ (a.hi = b.hi /\ a.lo > b.lo)

\* int32_t new_tick = absolute_time_diff_us(...): the conversion keeps the low
\* 32 bits, so times in the upper half of a 2^32 us period read negative.
to_int32(t) == IF t.hi % 2 = 0 THEN t.lo ELSE (t.lo - INT32_MAX) - 1

(***************************************************************************)
(* The state on entry of the while loop of exec_command_drill.             *)
(***************************************************************************)
\* A board that answers every datagram of md_init and reports no open load.
GoodReply == [c1 |-> DATAGRAM_LEN, c2 |-> DATAGRAM_LEN, value |-> 0]
GoodBoard == [status |-> GoodReply, chop |-> GoodReply, wcount |-> DATAGRAM_LEN]

\* main(): ed_init(); md_init(); with all boards present.
DrillBoards == Pins(md_init([i \in Boards |-> GoodBoard]))
DrillEdBoard == ed_init(FALSE)

NoCall == [op |-> "none", ix |-> 0, spi |-> 0, pulses |-> 0, dirw |-> 0,
           gatew |-> FALSE, ret |-> 0, answered |-> FALSE, value |-> 0]
NoCycle == [n |-> 0, phase |-> "none", pull |-> 0, push |-> 0, pos0 |-> 0,
            pos1 |-> 0, rev |-> 0, fwd |-> 0]

\* History of the ignition attempts, kept for the properties only. An attempt
\* begins when WaitingIgnition is entered (from: "init", "cooldown",
\* "short_cooldown") or restarted by a timeout (from: "timeout"); waited is
\* the number of ticks it has spent in WaitingIgnition since. delay, spent and
\* via are, for the last normal ignition, the delay tick_ed_drill recorded, the
\* value of waited when the detector fired, and how its attempt began.
NoIgnition == [from |-> "init", waited |-> 0, delay |-> 0, spent |-> 0, via |-> "none"]

\* e is ed before the tick, re the result of tick_ed_drill.
note_ignition(h, e, re) ==
  IF e.state = ED_DRILL_WAITING_IGNITION
    THEN IF re.ed.state = ED_DRILL_DISCHARGING
           THEN [h EXCEPT !.delay = re.ig_time, !.spent = h.waited, !.via = h.from]
         ELSE IF re.ed.state = ED_DRILL_WAITING_IGNITION
           THEN IF re.ig_time = U16(IG_TIME_TIMEOUT)
                  THEN [h EXCEPT !.from = "timeout", !.waited = 0]
                  ELSE [h EXCEPT !.waited = @ + 1]
         ELSE h
    ELSE IF re.ed.state = ED_DRILL_WAITING_IGNITION
      THEN [h EXCEPT !.waited = 0,
                     !.from = IF e.state = ED_DRILL_COOLDOWN
                                THEN "cooldown" ELSE "short_cooldown"]
      ELSE h

\* The md_step call of a tick of tick_md_drill that made one: rm.fwd in the
\* commanded direction, rm.rev against it.
drill_md_step(p, m, rm) ==
  IF rm.fwd > 0 THEN Pins(md_step(Enter(p), m.board_ix, m.is_plus))
  ELSE IF rm.rev > 0 THEN Pins(md_step(Enter(p), m.board_ix, ~m.is_plus))
  ELSE p

InitWith(steps_set, timer_set) ==
  /\ \E steps \in steps_set, is_plus \in BOOLEAN :
       md = init_md_drill(is_plus, steps)
  /\ \E t0 \in timer_set : ed = init_ed_drill(t0)
  /\ stats = init_drill_stats
  /\ ig_time = 0
  /\ gate = FALSE
  /\ tick = 0
  /\ pump_counter = 0
  /\ pc = "loop"
  /\ outcome = "none"
  /\ fwd_steps = 0
  /\ rev_steps = 0
  /\ n_dump = 0
  /\ pulses = [n |-> 0, alternating |-> TRUE, last |-> 0, base |-> 0]
  /\ drv = DrillBoards
  /\ edb = DrillEdBoard
  /\ call = NoCall
  /\ cyc = NoCycle
  /\ ign = NoIgnition
  /\ clock = NoClock

\* History of the normal ignitions of a run, kept for the properties only:
\* their number, whether their delays so far alternate between
\* ED_IG_US_TARGET - 1 and ED_IG_US_TARGET + 1, the last delay, and wait_us
\* as it was when the first of them was handed to the controller.
note_pulse(h, ig, w) ==
  [n |-> h.n + 1,
   alternating |-> /\ h.alternating
                   /\ ig \in {ED_IG_US_TARGET - 1, ED_IG_US_TARGET + 1}
                   /\ (h.n > 0 => ig # h.last),
   last |-> ig,
   base |-> IF h.n = 0 THEN w ELSE h.base]

(***************************************************************************)
(* One iteration of while (md.pos < md.steps): det is the detector level   *)
(* of this tick, lag the microseconds the clock has advanced when the      *)
(* busy-wait reads it.                                                     *)
(***************************************************************************)
LoopIter(det, lag) ==
  /\ pc = "loop"
  /\ md.pos < md.steps
  /\ LET re == tick_ed_drill(ed, stats, gate, det)
         rm == tick_md_drill(md)
     IN  /\ ig_time' = re.ig_time
         /\ pulses' = IF re.stats.n_pulse # stats.n_pulse
                        THEN note_pulse(pulses, re.ig_time, md.wait_us)
                        ELSE pulses
         /\ fwd_steps' = fwd_steps + rm.fwd
         /\ rev_steps' = rev_steps + rm.rev
         /\ drv' = drill_md_step(drv, md, rm)
         /\ ign' = note_ignition(ign, ed, re)
         /\ UNCHANGED <<edb, call, cyc, clock>>
         /\ IF safety_abort(re.ed)
              THEN /\ gate' = ed_unsafe_set_gate(FALSE)
                   /\ pc' = "done"
                   /\ outcome' = "aborted"
                   /\ ed' = re.ed
                   /\ md' = rm.md
                   /\ stats' = re.stats
                   /\ UNCHANGED <<tick, pump_counter, n_dump>>
              ELSE LET r0 == [ed |-> re.ed, md |-> rm.md, stats |-> re.stats,
                              pump_counter |-> pump_counter, tick |-> tick,
                              n_dump |-> n_dump]
                       r1 == [r0 EXCEPT !.md.wait_us = control_wait_us(@, re.ig_time)]
                       r2 == retract_check(r1)
                       r3 == pump_check(r2)
                       r4 == dump_check(r3)
                       r5 == tick_scheduler(r4, tick + lag)
                   IN  /\ ed' = r5.ed
                       /\ md' = r5.md
                       /\ stats' = r5.stats
                       /\ pump_counter' = r5.pump_counter
                       /\ tick' = r5.tick
                       /\ n_dump' = r5.n_dump
                       /\ gate' = re.gate
                       /\ UNCHANGED <<pc, outcome>>

\* Mutant of Finish: the gate is left as the last tick set it.
Finish_GateLeft ==
  /\ pc = "loop"
  /\ ~(md.pos < md.steps)
  /\ stats' = drill_print_stats(tick, stats)
  /\ n_dump' = n_dump + 1
  /\ pc' = "done"
  /\ outcome' = "completed"
  /\ UNCHANGED <<md, ed, ig_time, gate, tick, pump_counter, fwd_steps, rev_steps,
                 pulses, drv, edb, call, cyc, ign, clock>>

\* The code after the loop: gate off, "drill: done", the final statistics.
Finish ==
  /\ pc = "loop"
  /\ ~(md.pos < md.steps)
  /\ gate' = ed_unsafe_set_gate(FALSE)
  /\ stats' = drill_print_stats(tick, stats)
  /\ n_dump' = n_dump + 1
  /\ pc' = "done"
  /\ outcome' = "completed"
  /\ UNCHANGED <<md, ed, ig_time, tick, pump_counter, fwd_steps, rev_steps, pulses,
                 drv, edb, call, cyc, ign, clock>>

(***************************************************************************)
(* Environment of the general specification.                               *)
(***************************************************************************)
MaxSteps == 40
StepChoices == {0, 1, MaxSteps}

\* Values of the uninitialised ed.timer.
UninitTimers == {-2, 0, 96, 497}

\* The detector reports contact only at these values of ed.timer.
DetectAt == {-2, 1, ED_IG_US_SHORT_THRESH, ED_IG_US_SHORT_THRESH + 1,
             ED_IG_US_TARGET - 1, ED_IG_US_TARGET, ED_IG_US_TARGET + 1,
             ed_cooldown_us + 2, ED_IG_US_MAX_WAIT - 1}

Detector == IF ed.timer \in DetectAt THEN BOOLEAN ELSE {FALSE}

Init == InitWith(StepChoices, UninitTimers)

Tick == \E det \in Detector : LoopIter(det, 1)

Next == Tick \/ Finish

Spec == Init /\ [][Next]_vars

(***************************************************************************)
(* Sustained short circuit: the detector reports contact exactly when a    *)
(* contact counts as a short (ed.timer <= ED_IG_US_SHORT_THRESH), so every *)
(* detected contact is a short and no normal ignition happens.             *)
(***************************************************************************)
TickShort == LoopIter(ed.timer <= ED_IG_US_SHORT_THRESH, 1)

NextShort == TickShort \/ Finish

SpecShort == Init /\ [][NextShort]_vars

(***************************************************************************)
(* The adaptive controller alone, fed with an ignition delay held at       *)
(* exactly ED_IG_US_TARGET: wait_us starts anywhere in its range and each  *)
(* step hands one such sample to the controller of the loop.               *)
(***************************************************************************)
HoldWaits == {MD_MIN_WAIT_US, MD_MIN_WAIT_US + 1, md_initial_wait_us,
              MD_MAX_WAIT_US - 1, MD_MAX_WAIT_US}

HoldInit ==
  /\ \E w \in HoldWaits : md = [init_md_drill(TRUE, 1) EXCEPT !.wait_us = w]
  /\ ed = init_ed_drill(0)
  /\ stats = init_drill_stats
  /\ ig_time = 0
  /\ gate = FALSE
  /\ tick = 0
  /\ pump_counter = 0
  /\ pc = "hold"
  /\ outcome = "none"
  /\ fwd_steps = 0
  /\ rev_steps = 0
  /\ n_dump = 0
  /\ pulses = [n |-> 0, alternating |-> TRUE, last |-> 0, base |-> 0]
  /\ drv = DrillBoards
  /\ edb = DrillEdBoard
  /\ call = NoCall
  /\ cyc = NoCycle
  /\ ign = NoIgnition
  /\ clock = NoClock

HoldStep ==
  /\ pc = "hold"
  /\ ig_time' = ED_IG_US_TARGET
  /\ md' = [md EXCEPT !.wait_us = control_wait_us(@, ED_IG_US_TARGET)]
  /\ UNCHANGED <<ed, stats, gate, tick, pump_counter, pc, outcome, fwd_steps,
                 rev_steps, n_dump, pulses, drv, edb, call, cyc, ign, clock>>

SpecHold == HoldInit /\ [][HoldStep]_vars /\ WF_vars(HoldStep)

(***************************************************************************)
(* The feed state machine alone: tick_md_drill is ticked as the loop ticks *)
(* it, and a pull-push cycle is started with md_to_pullpush whenever the   *)
(* state is MD_DRILL_OK, as the retract and pump checks do, for every pair *)
(* of step counts up to MaxPullPush. cyc is, for the last cycle, the       *)
(* requested counts, the position at its start and at its return to OK,    *)
(* and the md_step calls made in between.                                  *)
(***************************************************************************)
MaxPullPush == 2
MaxCycles == 1
FeedSteps == {1, 2}

FeedInit ==
  /\ \E steps \in FeedSteps, is_plus \in BOOLEAN :
       md = init_md_drill(is_plus, steps)
  /\ ed = init_ed_drill(0)
  /\ stats = init_drill_stats
  /\ ig_time = 0
  /\ gate = FALSE
  /\ tick = 0
  /\ pump_counter = 0
  /\ pc = "feed"
  /\ outcome = "none"
  /\ fwd_steps = 0
  /\ rev_steps = 0
  /\ n_dump = 0
  /\ pulses = [n |-> 0, alternating |-> TRUE, last |-> 0, base |-> 0]
  /\ drv = DrillBoards
  /\ edb = DrillEdBoard
  /\ call = NoCall
  /\ cyc = NoCycle
  /\ ign = NoIgnition
  /\ clock = NoClock

StartCycle(pull_steps, push_steps) ==
  /\ pc = "feed"
  /\ md.pos < md.steps
  /\ md.state = MD_DRILL_OK
  /\ cyc.n < MaxCycles
  /\ md' = md_to_pullpush(md, pull_steps, push_steps, MD_MIN_WAIT_US)
  /\ cyc' = [n |-> cyc.n + 1, phase |-> "running", pull |-> pull_steps,
             push |-> push_steps, pos0 |-> md.pos, pos1 |-> md.pos,
             rev |-> 0, fwd |-> 0]
  /\ UNCHANGED <<ed, stats, ig_time, gate, tick, pump_counter, pc, outcome,
                 fwd_steps, rev_steps, n_dump, pulses, drv, edb, call, ign, clock>>

FeedTick ==
  /\ pc = "feed"
  /\ md.pos < md.steps
  /\ LET rm == tick_md_drill(md)
     IN  /\ md' = rm.md
         /\ fwd_steps' = fwd_steps + rm.fwd
         /\ rev_steps' = rev_steps + rm.rev
         /\ drv' = drill_md_step(drv, md, rm)
         /\ cyc' = IF cyc.phase = "running"
                     THEN [cyc EXCEPT !.rev = @ + rm.rev,
                                      !.fwd = @ + rm.fwd,
                                      !.pos1 = rm.md.pos,
                                      !.phase = IF rm.md.state = MD_DRILL_OK
                                                  THEN "returned" ELSE @]
                     ELSE cyc
  /\ UNCHANGED <<ed, stats, ig_time, gate, tick, pump_counter, pc, outcome,
                 n_dump, pulses, edb, call, ign, clock>>

FeedCycle == \E pull_steps \in 0 .. MaxPullPush, push_steps \in 0 .. MaxPullPush :
               StartCycle(pull_steps, push_steps)

FeedNext == FeedTick \/ FeedCycle

SpecFeed == FeedInit /\ [][FeedNext]_vars

(***************************************************************************)
(* The loop with a clock that has advanced by up to MaxLag microseconds    *)
(* when the busy-wait reads it. Readings of more than tick + 1 are taken   *)
(* while fewer than MaxMiss ticks have been missed.                        *)
(***************************************************************************)
MaxLag == 3
MaxMiss == 2
SchedSteps == {1, 2}

Lags == IF stats.n_tick_miss < MaxMiss THEN 1 .. MaxLag ELSE {1}

InitSched == InitWith(SchedSteps, {0})

TickSched == \E det \in Detector, lag \in Lags : LoopIter(det, lag)

NextSched == TickSched \/ Finish

SpecSched == InitSched /\ [][NextSched]_vars

(***************************************************************************)
(* The loop under a clock that keeps advancing: an iteration is taken      *)
(* whenever one is possible. Runs are followed for MaxTick microseconds.   *)
(***************************************************************************)
MaxTick == 360
LiveSteps == 2

InitLive == InitWith({1, LiveSteps}, {0, 497})

TickLive == tick < MaxTick /\ \E det \in Detector : LoopIter(det, 1)

NextLive == TickLive \/ Finish

SpecLive == InitLive /\ [][NextLive]_vars /\ WF_vars(NextLive)

(***************************************************************************)
(* The loop entered with the short counter one below the abort threshold:  *)
(* the abort branch of the loop body is taken when the next contact is a   *)
(* short, and the retract check fires while the counter stays. Runs are    *)
(* followed for MaxTick microseconds.                                      *)
(***************************************************************************)
AbortSteps == {0, 1}

InitAbort ==
  /\ \E steps \in AbortSteps, is_plus \in BOOLEAN :
       md = init_md_drill(is_plus, steps)
  /\ \E t0 \in UninitTimers :
       ed = [init_ed_drill(t0) EXCEPT !.successive_shorts = HARD_ABORT_SHORTS - 1]
  /\ stats = init_drill_stats
  /\ ig_time = 0
  /\ gate = FALSE
  /\ tick = 0
  /\ pump_counter = 0
  /\ pc = "loop"
  /\ outcome = "none"
  /\ fwd_steps = 0
  /\ rev_steps = 0
  /\ n_dump = 0
  /\ pulses = [n |-> 0, alternating |-> TRUE, last |-> 0, base |-> 0]
  /\ drv = DrillBoards
  /\ edb = DrillEdBoard
  /\ call = NoCall
  /\ cyc = NoCycle
  /\ ign = NoIgnition
  /\ clock = NoClock

SpecAbort == InitAbort /\ [][NextLive]_vars

(***************************************************************************)
(* The two drivers as the console commands use them after main() has run   *)
(* ed_init and md_init: any driver function is called on any board index,  *)
(* and the hardware answers each datagram as it likes. call is what the    *)
(* last call did: its name and board index, the datagrams it clocked, the  *)
(* STEP pulses and DIR writes it made, whether it wrote the sense gate,    *)
(* and the value it returned.                                              *)
(***************************************************************************)
\* Board indexes of the callers: the three boards and one beyond them.
MdIndexes == 0 .. MD_NUM_BOARDS

Counts == {DATAGRAM_LEN, 0}

\* Register values: nothing set, bit 0, the GSTAT bits 0b110, bit 24 of
\* DRV_STATUS without and with bit 0.
RegValues == {0, 1, 6, 16777216, 16777217}

Replies == [c1 : Counts, c2 : Counts, value : RegValues]

\* What a board does during md_init: it answers or not, reports an open load
\* or not, accepts the CHOPCONF write or not.
InitReplies == {GoodReply, [GoodReply EXCEPT !.c1 = 0], [GoodReply EXCEPT !.value = 1]}
BoardHw == [status : InitReplies,
            chop : {GoodReply, [GoodReply EXCEPT !.c2 = 0]},
            wcount : Counts]

RegAddrs == {REG_GCONF, REG_DRV_STATUS, ADDR_INVALID}

ProxDelays == {MAX_WAIT_US, MAX_WAIT_US + 5}

Traffic(op, ix, d, ret) ==
  [op |-> op, ix |-> ix, spi |-> d.spi, pulses |-> d.pulses, dirw |-> d.dirw,
   gatew |-> FALSE, ret |-> ret, answered |-> FALSE, value |-> 0]

\* The register read of a call that has clocked datagrams: whether both
\* datagrams came back complete, and the value the board then returned.
Readback(c, hw) ==
  LET ok == c.spi > 0 /\ hw.c1 = DATAGRAM_LEN /\ hw.c2 = DATAGRAM_LEN
  IN  [c EXCEPT !.answered = ok, !.value = IF ok THEN hw.value ELSE 0]

BoardInit ==
  /\ \E hs \in [Boards -> BoardHw] :
       LET d == md_init(hs)
       IN  /\ drv = Pins(d)
           /\ call = Traffic("md_init", 0, d, 0)
  /\ \E sense_curr \in BOOLEAN : edb = ed_init(sense_curr)
  /\ md = init_md_drill(TRUE, 0)
  /\ ed = init_ed_drill(0)
  /\ stats = init_drill_stats
  /\ ig_time = 0
  /\ gate = FALSE
  /\ tick = 0
  /\ pump_counter = 0
  /\ pc = "cmd"
  /\ outcome = "none"
  /\ fwd_steps = 0
  /\ rev_steps = 0
  /\ n_dump = 0
  /\ pulses = [n |-> 0, alternating |-> TRUE, last |-> 0, base |-> 0]
  /\ cyc = NoCycle
  /\ ign = NoIgnition
  /\ clock = NoClock

BoardFrame ==
  UNCHANGED <<md, ed, stats, ig_time, gate, tick, pump_counter, pc, outcome,
              fwd_steps, rev_steps, n_dump, pulses, cyc, ign, clock>>

MdGetStatus(ix, hw) ==
  /\ pc = "cmd"
  /\ LET r == md_get_status(Enter(drv), ix, hw)
     IN  /\ drv' = Pins(r.d)
         /\ call' = Readback(Traffic("md_get_status", ix, r.d, r.ret), hw)
  /\ UNCHANGED edb
  /\ BoardFrame

MdStep(ix, plus) ==
  /\ pc = "cmd"
  /\ LET d == md_step(Enter(drv), ix, plus)
     IN  /\ drv' = Pins(d)
         /\ call' = Traffic("md_step", ix, d, 0)
  /\ UNCHANGED edb
  /\ BoardFrame

CheckStall(ix, hw) ==
  /\ pc = "cmd"
  /\ LET r == check_stall(Enter(drv), ix, hw)
     IN  /\ drv' = Pins(r.d)
         /\ call' = Readback(Traffic("check_stall", ix, r.d, r.ret), hw)
  /\ UNCHANGED edb
  /\ BoardFrame

RegRead(ix, addr, hw) ==
  /\ pc = "cmd"
  /\ LET r == read_register(Enter(drv), ix, addr, hw)
     IN  /\ drv' = Pins(r.d)
         /\ call' = Traffic("read_register", ix, r.d, IF r.ok THEN 1 ELSE 0)
  /\ UNCHANGED edb
  /\ BoardFrame

RegWrite(ix, addr, count) ==
  /\ pc = "cmd"
  /\ LET r == write_register(Enter(drv), ix, addr, count)
     IN  /\ drv' = Pins(r.d)
         /\ call' = Traffic("write_register", ix, r.d, IF r.ok THEN 1 ELSE 0)
  /\ UNCHANGED edb
  /\ BoardFrame

EdToDischarge ==
  /\ pc = "cmd"
  /\ edb' = ed_to_discharge(edb)
  /\ call' = Traffic("ed_to_discharge", 0, Enter(drv), 0)
  /\ UNCHANGED drv
  /\ BoardFrame

EdToSense ==
  /\ pc = "cmd"
  /\ edb' = ed_to_sense(edb)
  /\ call' = Traffic("ed_to_sense", 0, Enter(drv), 0)
  /\ UNCHANGED drv
  /\ BoardFrame

EdProximity(delay) ==
  /\ pc = "cmd"
  /\ LET r == ed_proximity(edb, delay)
     IN  /\ edb' = r.e
         /\ call' = [Traffic("ed_proximity", 0, Enter(drv), r.ret)
                       EXCEPT !.gatew = r.gatew]
  /\ UNCHANGED drv
  /\ BoardFrame

EdAvailable ==
  /\ pc = "cmd"
  /\ call' = Traffic("ed_available", 0, Enter(drv), IF ed_available(edb) THEN 1 ELSE 0)
  /\ UNCHANGED <<drv, edb>>
  /\ BoardFrame

BoardNext ==
  \/ \E ix \in MdIndexes, hw \in Replies : MdGetStatus(ix, hw)
  \/ \E ix \in MdIndexes, plus \in BOOLEAN : MdStep(ix, plus)
  \/ \E ix \in MdIndexes, hw \in Replies : CheckStall(ix, hw)
  \/ \E ix \in MdIndexes, addr \in RegAddrs, hw \in InitReplies : RegRead(ix, addr, hw)
  \/ \E ix \in MdIndexes, addr \in RegAddrs, count \in Counts : RegWrite(ix, addr, count)
  \/ EdToDischarge
  \/ EdToSense
  \/ \E delay \in ProxDelays : EdProximity(delay)
  \/ EdAvailable

SpecBoard == BoardInit /\ [][BoardNext]_vars

(***************************************************************************)
(* Sustained short circuit on a target long enough for ten shorts and      *)
(* their cooldowns.                                                        *)
(***************************************************************************)
RetractSteps == 400

InitRetract == InitWith({RetractSteps}, {0})

SpecRetract == InitRetract /\ [][NextShort]_vars

(***************************************************************************)
(* The loop entered with the retract trigger, the pump trigger, both or    *)
(* none of them pending, and a silent detector: the checks that start a    *)
(* pull-push cycle are taken, and a retract runs to its end within         *)
(* MaxCycleTick microseconds.                                              *)
(***************************************************************************)
MaxCycleTick == 7000

InitCycle ==
  /\ \E is_plus \in BOOLEAN : md = init_md_drill(is_plus, 1)
  /\ \E shorts \in {0, RETRACT_SHORTS} :
       ed = [init_ed_drill(0) EXCEPT !.successive_shorts = shorts]
  /\ pump_counter \in {0, PUMP_INTERVAL}
  /\ stats = init_drill_stats
  /\ ig_time = 0
  /\ gate = FALSE
  /\ tick = 0
  /\ pc = "loop"
  /\ outcome = "none"
  /\ fwd_steps = 0
  /\ rev_steps = 0
  /\ n_dump = 0
  /\ pulses = [n |-> 0, alternating |-> TRUE, last |-> 0, base |-> 0]
  /\ drv = DrillBoards
  /\ edb = DrillEdBoard
  /\ call = NoCall
  /\ cyc = NoCycle
  /\ ign = NoIgnition
  /\ clock = NoClock

TickCycle == tick < MaxCycleTick /\ LoopIter(FALSE, 1)

NextCycle == TickCycle \/ Finish

SpecCycle == InitCycle /\ [][NextCycle]_vars

(***************************************************************************)
(* The detector may also report contact when the wait has already reached  *)
(* ED_IG_US_MAX_WAIT: at the limit itself, and at the value ed.timer has   *)
(* when WaitingIgnition is entered from ShortCooldown.                     *)
(***************************************************************************)
DetectLate == DetectAt \cup {ED_IG_US_MAX_WAIT, ED_SHORT_COOLDOWN_US + 1}

TickLate ==
  \E det \in (IF ed.timer \in DetectLate THEN BOOLEAN ELSE {FALSE}) :
    LoopIter(det, 1)

NextLate == TickLate \/ Finish

SpecLate == Init /\ [][NextLate]_vars

(***************************************************************************)
(* The loop entered one short below the retract trigger, either with the   *)
(* feed timer at 0 or with a feed step due in the first tick: the tick in  *)
(* which the discharge FSM counts the short that reaches the trigger.      *)
(***************************************************************************)
OrderSteps == {1, 2}

InitOrder ==
  /\ \E steps \in OrderSteps, is_plus \in BOOLEAN, due \in BOOLEAN :
       md = [init_md_drill(is_plus, steps) EXCEPT
               !.timer = IF due THEN md_initial_wait_us ELSE 0]
  /\ \E t0 \in UninitTimers :
       ed = [init_ed_drill(t0) EXCEPT !.successive_shorts = RETRACT_SHORTS - 1]
  /\ stats = init_drill_stats
  /\ ig_time = 0
  /\ gate = FALSE
  /\ tick = 0
  /\ pump_counter = 0
  /\ pc = "loop"
  /\ outcome = "none"
  /\ fwd_steps = 0
  /\ rev_steps = 0
  /\ n_dump = 0
  /\ pulses = [n |-> 0, alternating |-> TRUE, last |-> 0, base |-> 0]
  /\ drv = DrillBoards
  /\ edb = DrillEdBoard
  /\ call = NoCall
  /\ cyc = NoCycle
  /\ ign = NoIgnition
  /\ clock = NoClock

SpecOrder == InitOrder /\ [][NextLive]_vars

(***************************************************************************)
(* Long runs: the clock may be read DUMP_INTERVAL microseconds later than  *)
(* the tick (at the phase-timer values of LongAt, at most MaxLong times),  *)
(* so that the debug dump of the loop becomes due.                         *)
(***************************************************************************)
MaxLong == 2
DumpSteps == 40
LongAt == {2, 50}

\* In these runs the detector reports contact only at these values of ed.timer:
\* a short in the first tick, or an ignition just below the target delay.
DumpDetectAt == {-2, ED_IG_US_TARGET - 1}

InitDump == InitWith({1, DumpSteps}, {-2, 96})

LongLags ==
  IF ed.timer \in LongAt /\ tick < MaxLong * DUMP_INTERVAL
    THEN {1, DUMP_INTERVAL}
    ELSE {1}

TickDump ==
  \E det \in (IF ed.timer \in DumpDetectAt THEN BOOLEAN ELSE {FALSE}),
     lag \in LongLags :
    LoopIter(det, lag)

NextDump == TickDump \/ Finish

SpecDump == InitDump /\ [][NextDump]_vars

(***************************************************************************)
(* The busy-wait on its own, entered with tick anywhere in its range: each *)
(* reading of the clock comes some microseconds after the one before, and  *)
(* after the wait has returned the next iteration enters it again.         *)
(***************************************************************************)
MaxPolls == 6

WaitTicks == {0, 5, INT32_MAX - 4, INT32_MAX - 1}

\* Microseconds between two readings of the clock.
PollGaps == {1, 2, 3}

InitWait ==
  /\ tick \in WaitTicks
  /\ clock = [now |-> [hi |-> 0, lo |-> tick], at |-> [hi |-> 0, lo |-> tick],
              polls |-> 0]
  /\ md = init_md_drill(TRUE, 1)
  /\ ed = init_ed_drill(0)
  /\ stats = init_drill_stats
  /\ ig_time = 0
  /\ gate = FALSE
  /\ pump_counter = 0
  /\ pc = "wait"
  /\ outcome = "none"
  /\ fwd_steps = 0
  /\ rev_steps = 0
  /\ n_dump = 0
  /\ pulses = [n |-> 0, alternating |-> TRUE, last |-> 0, base |-> 0]
  /\ drv = DrillBoards
  /\ edb = DrillEdBoard
  /\ call = NoCall
  /\ cyc = NoCycle
  /\ ign = NoIgnition

WaitFrame ==
  UNCHANGED <<md, ed, ig_time, gate, pump_counter, outcome, fwd_steps, rev_steps,
              n_dump, pulses, drv, edb, call, cyc, ign>>

\* One pass of while (true): read the clock, leave if new_tick > tick.
Poll(gap) ==
  /\ pc = "wait"
  /\ clock.polls < MaxPolls
  /\ LET now == us_add(clock.now, gap)
         new_tick == to_int32(now)
     IN  IF new_tick > tick
           THEN LET r == tick_scheduler([stats |-> stats, tick |-> tick], new_tick)
                IN  /\ stats' = r.stats
                    /\ tick' = r.tick
                    /\ pc' = "woke"
                    /\ clock' = [now |-> now, at |-> now, polls |-> clock.polls + 1]
           ELSE /\ clock' = [clock EXCEPT !.now = now, !.polls = @ + 1]
                /\ UNCHANGED <<stats, tick, pc>>
  /\ WaitFrame

\* The next iteration of the loop reaches its busy-wait.
Resume ==
  /\ pc = "woke"
  /\ pc' = "wait"
  /\ UNCHANGED <<stats, tick, clock>>
  /\ WaitFrame

NextWait == (\E gap \in PollGaps : Poll(gap)) \/ Resume

SpecWait == InitWait /\ [][NextWait]_vars

(***************************************************************************)
(* Properties.                                                             *)
(***************************************************************************)
Min(a, b) == IF a < b THEN a ELSE b
Max(a, b) == IF a > b THEN a ELSE b

\* C1: in a run where every detected contact is a short and no normal
\* ignition intervenes, successive_shorts climbs with the shorts (it equals
\* the number of shorts so far, up to the hard threshold 1000), and once it
\* has reached 1000 the run has aborted with the gate deasserted.
C1_SustainedShortAborts ==
  /\ ed.successive_shorts = Min(stats.n_short, HARD_ABORT_SHORTS)
  /\ stats.n_short >= HARD_ABORT_SHORTS =>
       (pc = "done" /\ outcome = "aborted" /\ gate = FALSE)

C3_GateOffOnReturn == pc = "done" => gate = FALSE

\* The run returned from a tick that left the discharge FSM in
\* WaitingIgnition or Discharging after a normal ignition: the gate was
\* asserted until the return.
C3_Witness ==
  /\ pc = "done"
  /\ ed.state \in {ED_DRILL_WAITING_IGNITION, ED_DRILL_DISCHARGING}
  /\ pulses.n >= 1

\* C4: md.wait_us is within [MD_MIN_WAIT_US, MD_MAX_WAIT_US] in every state
\* of a run.
C4_WaitInRange ==
  md.wait_us >= MD_MIN_WAIT_US /\ md.wait_us <= MD_MAX_WAIT_US

\* The controller has brought wait_us down to the lower clamp.
C4_Witness ==
  /\ md.wait_us = MD_MIN_WAIT_US
  /\ tick > md_initial_wait_us
  /\ pc = "loop"

\* C5: a tick in which the discharge FSM produced no ignition-delay sample
\* (no contact was detected, ig_time is the "-1" of no ignition) leaves
\* md.wait_us unchanged.
C5_NoSampleNoChange ==
  [][(/\ pc' = "loop"
      /\ ig_time' = U16(-1)
      /\ stats'.n_pulse = stats.n_pulse
      /\ stats'.n_short = stats.n_short)
     => md'.wait_us = md.wait_us]_vars

\* C6: a tick that produced an ignition-delay sample (a normal ignition or a
\* short, with delay ig_time) changes wait_us to min(wait_us + 1,
\* MD_MAX_WAIT_US) if the delay is below ED_IG_US_TARGET and to
\* max(wait_us - 1, MD_MIN_WAIT_US) otherwise.
C6_UnitStepController ==
  [][(/\ pc' = "loop"
      /\ (stats'.n_pulse # stats.n_pulse \/ stats'.n_short # stats.n_short))
     => md'.wait_us = IF ig_time' < ED_IG_US_TARGET
                        THEN Min(md.wait_us + 1, MD_MAX_WAIT_US)
                        ELSE Max(md.wait_us - 1, MD_MIN_WAIT_US)]_vars

\* The first normal ignition, with a delay one below the target, has just
\* raised wait_us by one.
C6_Witness ==
  /\ pulses.n = 1
  /\ pulses.last = ED_IG_US_TARGET - 1
  /\ ed.state = ED_DRILL_DISCHARGING
  /\ ed.timer = 1
  /\ md.wait_us = pulses.base + 1

\* C7: once at least two normal ignitions have happened and their delays
\* alternate between ED_IG_US_TARGET - 1 and ED_IG_US_TARGET + 1, wait_us is
\* within 2 units of the value it had at the first of them.
C7_AlternationKeepsBand ==
  (pulses.n >= 2 /\ pulses.alternating) =>
    (md.wait_us - pulses.base \in -2 .. 2)

\* C8 (as stated): with every sample equal to ED_IG_US_TARGET, wait_us does
\* not settle on a single value: it changes again and again.
C8_KeepsOscillating == []<><<md'.wait_us # md.wait_us>>_vars

\* C8 (amended): with every sample equal to ED_IG_US_TARGET, wait_us never
\* increases and eventually stays at MD_MIN_WAIT_US.
C8_SettlesAtMinWait ==
  /\ [][md'.wait_us <= md.wait_us]_vars
  /\ <>[](md.wait_us = MD_MIN_WAIT_US)

\* Samples equal to the target have brought wait_us to the lower clamp.
C8_Witness ==
  /\ pc = "hold"
  /\ ig_time = ED_IG_US_TARGET
  /\ md.wait_us = MD_MIN_WAIT_US

\* C9: a tick that takes the discharge FSM from WaitingIgnition to
\* Discharging sets successive_shorts to 0, one that takes it from
\* WaitingIgnition to ShortCooldown increases it by exactly 1, and a tick
\* executed in Discharging, Cooldown or ShortCooldown does not change it.
C9_ShortCounter ==
  [][/\ (ed.state = ED_DRILL_WAITING_IGNITION /\ ed'.state = ED_DRILL_DISCHARGING)
          => ed'.successive_shorts = 0
     /\ (ed.state = ED_DRILL_WAITING_IGNITION /\ ed'.state = ED_DRILL_SHORT_COOLDOWN)
          => ed'.successive_shorts = ed.successive_shorts + 1
     /\ ed.state \in {ED_DRILL_DISCHARGING, ED_DRILL_COOLDOWN,
                      ED_DRILL_SHORT_COOLDOWN}
          => ed'.successive_shorts = ed.successive_shorts]_vars

\* A short has just been counted in a run that also had a normal ignition.
C9_Witness ==
  /\ ed.state = ED_DRILL_SHORT_COOLDOWN
  /\ ed.timer = 1
  /\ ed.successive_shorts = 1
  /\ pulses.n >= 1

\* C10: a run in which no short happened (successive_shorts stayed 0) ends
\* completed, after exactly md.steps step calls in the commanded direction
\* and none in the reverse direction.
C10_ExactlyNSteps ==
  (pc = "done" /\ stats.n_short = 0) =>
    (outcome = "completed" /\ fwd_steps = md.steps /\ rev_steps = 0)

\* A run to the largest target has ended without any short.
C10_Witness ==
  /\ pc = "done"
  /\ stats.n_short = 0
  /\ md.steps = MaxSteps
  /\ fwd_steps = MaxSteps

C12_PosFollowsState ==
  [][LET dp == md'.pos - md.pos
         df == fwd_steps' - fwd_steps
         dr == rev_steps' - rev_steps
     IN  /\ dp \in {-1, 0, 1}
         /\ (md.state \in {MD_DRILL_OK, MD_DRILL_PUSH} => dp >= 0)
         /\ (md.state = MD_DRILL_PULL => dp <= 0)
         /\ (dp = 1 => df = 1 /\ dr = 0 /\ drv'.dir = ~md.is_plus)
         /\ (dp = -1 => df = 0 /\ dr = 1 /\ drv'.dir = md.is_plus)
         /\ (dp = 0 => df = 0 /\ dr = 0 /\ drv' = drv)]_vars

C12_Witness ==
  /\ pc = "feed"
  /\ md.state = MD_DRILL_OK
  /\ cyc.phase = "returned"
  /\ cyc.rev > 0
  /\ fwd_steps > 0
  /\ md.pos = fwd_steps - rev_steps

\* C13: an iteration of the loop that reaches the busy-wait adds one to
\* n_tick_miss exactly when the microseconds read on leaving the wait are
\* more than tick + 1, and leaves n_tick_miss alone otherwise.
C13_MissIffLate ==
  [][(pc = "loop" /\ md.pos < md.steps /\ pc' = "loop") =>
       stats'.n_tick_miss = stats.n_tick_miss + (IF tick' > tick + 1 THEN 1 ELSE 0)]_vars

C13_Witness ==
  /\ pc = "loop"
  /\ md.pos = 0
  /\ md.timer = 3
  /\ tick = md.timer + 1
  /\ stats.n_tick_miss = 1

C17_OneChipSelect ==
  pc = "cmd" => Cardinality({i \in Boards : ~drv.csn[i]}) <= 1

\* C18: once boards[i] differs from MD_OK after md_init, no md_get_status,
\* md_step or check_stall call (nor any other driver call) changes it.
C18_StatusLatched ==
  [][\A i \in Boards : drv.boards[i] # MD_OK => drv'.boards[i] = drv.boards[i]]_vars

C18_Witness ==
  /\ pc = "cmd"
  /\ call.op = "check_stall"
  /\ call.ix \in Boards
  /\ drv.boards[call.ix] = MD_OVERTEMP
  /\ call.spi = 0

\* C19: md_step and check_stall called for a board that is not MD_OK, or with
\* an index outside 0 .. MD_NUM_BOARDS - 1, clock no datagram, pulse no STEP
\* pin, do not write the DIR pin and leave boards[] and the pins as they were,
\* and check_stall returns false; md_get_status for a board that is not MD_OK
\* clocks no datagram.
C19_InertOnBadBoard ==
  [][(call'.ix \notin Boards \/ drv.boards[call'.ix] # MD_OK) =>
       /\ (call'.op \in {"md_step", "check_stall"} =>
             /\ call'.spi = 0
             /\ call'.pulses = 0
             /\ call'.dirw = 0
             /\ call'.ret = 0
             /\ drv' = drv)
       /\ (call'.op = "md_get_status" /\ call'.ix \in Boards =>
             call'.spi = 0 /\ drv' = drv)]_vars

C19_Witness ==
  /\ pc = "cmd"
  /\ call.op = "md_step"
  /\ call.ix \in Boards
  /\ drv.boards[call.ix] = MD_NO_MOTOR
  /\ call.pulses = 0
  /\ \E j \in Boards : drv.boards[j] = MD_OK

\* C20: while the discharge board is not detected (mode is ED_UNKNOWN, so
\* ed_available() is false), no ED command changes the mode or a pin,
\* ed_proximity returns -1 without writing the sense gate, and ed_available()
\* keeps returning false.
C20_EdCommandsIgnored ==
  [][edb.mode = ED_UNKNOWN =>
       /\ edb' = edb
       /\ ~ed_available(edb')
       /\ (call'.op = "ed_proximity" => call'.ret = -1 /\ ~call'.gatew)
       /\ (call'.op = "ed_available" => call'.ret = 0)]_vars

C20_Witness ==
  /\ pc = "cmd"
  /\ edb.mode = ED_UNKNOWN
  /\ call.op = "ed_to_discharge"
  /\ ~edb.mode_pin

\* C21: the ignition delay recorded for a normal ignition is the number of
\* ticks its attempt has spent in WaitingIgnition (counted from 0 or from 1)
\* when the detector fires, for every attempt the discharge FSM began itself:
\* by leaving Cooldown or ShortCooldown, or by a timeout.
C21_DelayIsTimeWaited ==
  ign.via \in {"cooldown", "short_cooldown", "timeout"} =>
    ign.delay \in {ign.spent, ign.spent + 1}

\* C22: once RETRACT_SHORTS shorts have happened in a row with no normal
\* ignition in between, in a run whose feed has been in MD_DRILL_OK all
\* along, a retract has been started (n_retract counts it).
C22_TenShortsRetract ==
  (pc = "loop" /\ stats.n_pulse = 0 /\ stats.n_short >= RETRACT_SHORTS) =>
    stats.n_retract >= 1

C24_CycleStartsInOkOnly ==
  [][(pc = "loop" /\ tick' # tick) =>
       LET after == tick_md_drill(md).md
           retracted == stats'.n_retract # stats.n_retract
           pumped == pump_counter' # pump_counter
       IN  /\ (retracted \/ pumped =>
                 /\ after.state = MD_DRILL_OK
                 /\ md'.state = MD_DRILL_PULL
                 /\ md'.pullpush_curr_steps = 0
                 /\ ~(retracted /\ pumped))
           /\ (after.state # MD_DRILL_OK =>
                 /\ ~retracted
                 /\ ~pumped
                 /\ md' = [after EXCEPT !.wait_us = md'.wait_us])]_vars

C24_Witness ==
  /\ pc = "loop"
  /\ stats.n_retract = 1
  /\ md.state = MD_DRILL_PULL
  /\ md.pull_target_steps = PUMP_STEPS(md)
  /\ md.pullpush_curr_steps = 0
  /\ pump_counter = 0
  /\ rev_steps = MD_RETRACT_DIST_STEPS

\* C25: a tick that finds WaitingIgnition with ed.timer >= ED_IG_US_MAX_WAIT
\* is a timeout whatever the detector reads: the timer is reset (and is 1
\* after the increment that ends the tick), successive_shorts is 0, the state
\* is still WaitingIgnition, the gate is on, and neither n_pulse nor n_short
\* nor the pulse history changes.
C25_TimeoutWhateverDetected ==
  [][(pc = "loop" /\ tick' # tick /\ ed.state = ED_DRILL_WAITING_IGNITION
        /\ ed.timer >= ED_IG_US_MAX_WAIT) =>
       /\ ed'.state = ED_DRILL_WAITING_IGNITION
       /\ ed'.timer = 1
       /\ ed'.successive_shorts = 0
       /\ gate' = TRUE
       /\ ig_time' = U16(IG_TIME_TIMEOUT)
       /\ stats'.n_pulse = stats.n_pulse
       /\ stats'.n_short = stats.n_short
       /\ pulses' = pulses]_vars

C25_Witness ==
  /\ pc = "loop"
  /\ ed.state = ED_DRILL_WAITING_IGNITION
  /\ ed.timer = 1
  /\ ign.from = "timeout"
  /\ ed.successive_shorts = 0
  /\ gate = TRUE
  /\ stats.n_short >= 1

\* C26: an ignition timeout (a tick that finds WaitingIgnition with
\* ed.timer >= ED_IG_US_MAX_WAIT) is recorded in the drill statistics, so
\* the statistics after the tick differ from those before it.
C26_TimeoutIsCounted ==
  [][(pc = "loop" /\ tick' # tick /\ ed.state = ED_DRILL_WAITING_IGNITION
        /\ ed.timer >= ED_IG_US_MAX_WAIT) =>
       stats' # stats]_vars

\* C27 (as stated): successive_shorts goes from a positive value to 0 only
\* in a tick that is a normal ignition, which counts a pulse.
C27_ResetOnlyByIgnition ==
  [][(ed.successive_shorts > 0 /\ ed'.successive_shorts = 0) =>
       stats'.n_pulse = stats.n_pulse + 1]_vars

\* C27 (amended): successive_shorts goes from a positive value to 0 only in
\* a tick that is a normal ignition (WaitingIgnition to Discharging, a pulse
\* counted) or an ignition timeout (WaitingIgnition found with
\* ed.timer >= ED_IG_US_MAX_WAIT); in every other tick it is kept or, on a
\* short, incremented.
C27_ResetByIgnitionOrTimeout ==
  [][/\ (ed.successive_shorts > 0 /\ ed'.successive_shorts = 0) =>
          /\ ed.state = ED_DRILL_WAITING_IGNITION
          /\ \/ /\ ed'.state = ED_DRILL_DISCHARGING
                /\ stats'.n_pulse = stats.n_pulse + 1
             \/ /\ ed.timer >= ED_IG_US_MAX_WAIT
                /\ ed'.state = ED_DRILL_WAITING_IGNITION
                /\ ig_time' = U16(IG_TIME_TIMEOUT)
     /\ ed'.successive_shorts \in
          {0, ed.successive_shorts, ed.successive_shorts + 1}
     /\ (ed'.successive_shorts = ed.successive_shorts + 1 =>
           stats'.n_short = stats.n_short + 1)]_vars

C27_Witness ==
  /\ pc = "loop"
  /\ ed.successive_shorts = 0
  /\ stats.max_successive_short = 1
  /\ ign.from = "timeout"
  /\ ed.state = ED_DRILL_WAITING_IGNITION
  /\ ed.timer = 1
  /\ stats.n_pulse = 0

\* C28: at the end of every tick body, if the discharge FSM is in Cooldown
\* or in ShortCooldown the gate is off, the tick that detects a short
\* included.
C28_GateOffInCooldown ==
  (pc = "loop" /\ ed.state \in {ED_DRILL_COOLDOWN, ED_DRILL_SHORT_COOLDOWN}) =>
    gate = FALSE

\* C29: while the loop runs, Discharging is entered only by a normal
\* ignition, with the timer restarted; a tick that finds Discharging with
\* ed.timer below ed_pulse_dur_us stays there with the gate on and the timer
\* one higher; the tick that finds ed.timer at ed_pulse_dur_us turns the gate
\* off and enters Cooldown with the timer restarted (1 after the increment
\* that ends the tick); so in Discharging the gate is on and the timer is
\* never above ed_pulse_dur_us.
C29_PulseLastsItsDuration ==
  [][(pc = "loop" /\ tick' # tick) =>
       /\ (ed.state = ED_DRILL_DISCHARGING /\ ed.timer < ed_pulse_dur_us =>
             /\ ed'.state = ED_DRILL_DISCHARGING
             /\ ed'.timer = ed.timer + 1
             /\ gate' = TRUE)
       /\ (ed.state = ED_DRILL_DISCHARGING /\ ed.timer >= ed_pulse_dur_us =>
             /\ ed'.state = ED_DRILL_COOLDOWN
             /\ ed'.timer = 1
             /\ gate' = FALSE)
       /\ (ed.state # ED_DRILL_DISCHARGING /\ ed'.state = ED_DRILL_DISCHARGING =>
             /\ ed.state = ED_DRILL_WAITING_IGNITION
             /\ stats'.n_pulse = stats.n_pulse + 1
             /\ ed'.timer = 1)
       /\ (ed'.state = ED_DRILL_DISCHARGING =>
             gate' = TRUE /\ ed'.timer \in 1..ed_pulse_dur_us)]_vars

C29_Witness ==
  /\ pc = "loop"
  /\ ed.state = ED_DRILL_COOLDOWN
  /\ ed.timer = 1
  /\ gate = FALSE
  /\ stats.n_pulse >= 1

C33_DumpOnlyInCooldown ==
  [][(pc' = "loop" /\ (n_dump' # n_dump
                        \/ stats'.last_dump_tick # stats.last_dump_tick)) =>
       /\ ed'.state = ED_DRILL_COOLDOWN
       /\ tick > stats.last_dump_tick + DUMP_INTERVAL
       /\ n_dump' = n_dump + 1
       /\ stats'.last_dump_tick = tick]_vars

C33_Witness ==
  /\ pc = "loop"
  /\ n_dump = 2
  /\ ed.state = ED_DRILL_COOLDOWN
  /\ stats.last_dump_tick > 2 * DUMP_INTERVAL

\* C34 (as stated): from one tick of the loop to the next none of n_pulse,
\* n_short, n_retract, n_tick_miss and max_successive_short decreases.
C34_CountersNeverDecrease ==
  [][(pc = "loop" /\ pc' = "loop") =>
       /\ stats'.n_pulse >= stats.n_pulse
       /\ stats'.n_short >= stats.n_short
       /\ stats'.n_retract >= stats.n_retract
       /\ stats'.n_tick_miss >= stats.n_tick_miss
       /\ stats'.max_successive_short >= stats.max_successive_short]_vars

\* C34 (amended): from one tick of the loop to the next n_pulse, n_short,
\* n_retract and n_tick_miss do not decrease; max_successive_short does not
\* decrease in a tick without a snapshot and is 0 after a tick with one;
\* n_pulse grows by 1 exactly in the ticks that go from WaitingIgnition to
\* Discharging and n_short by 1 exactly in those that go from
\* WaitingIgnition to ShortCooldown.
C34_CountersAndSnapshotReset ==
  [][(pc = "loop" /\ outcome' # "completed") =>
       /\ stats'.n_retract >= stats.n_retract
       /\ stats'.n_tick_miss >= stats.n_tick_miss
       /\ (n_dump' = n_dump =>
             stats'.max_successive_short >= stats.max_successive_short)
       /\ (n_dump' # n_dump => stats'.max_successive_short = 0)
       /\ stats'.n_pulse = stats.n_pulse +
            (IF ed.state = ED_DRILL_WAITING_IGNITION
                /\ ed'.state = ED_DRILL_DISCHARGING THEN 1 ELSE 0)
       /\ stats'.n_short = stats.n_short +
            (IF ed.state = ED_DRILL_WAITING_IGNITION
                /\ ed'.state = ED_DRILL_SHORT_COOLDOWN THEN 1 ELSE 0)]_vars

C34_Witness ==
  /\ pc = "loop"
  /\ n_dump >= 1
  /\ stats.n_short >= 1
  /\ stats.n_pulse >= 1
  /\ stats.n_tick_miss >= 1
  /\ stats.max_successive_short = 0

\* C35: md_get_status on a board that is MD_OK reads GSTAT; if the read
\* fails it latches and returns MD_SPI_ERROR; if the value read has the
\* overtemperature bit (0b010) or the undervoltage bit (0b100) set it latches
\* and returns MD_OVERTEMP; otherwise the board stays MD_OK and MD_OK is
\* returned.
C35_OvertempFromGstatBits ==
  [][(call'.op = "md_get_status" /\ call'.ix \in Boards
        /\ drv.boards[call'.ix] = MD_OK) =>
       LET flagged == (call'.value \div 2) % 4 # 0
           expect == IF ~call'.answered THEN MD_SPI_ERROR
                     ELSE IF flagged THEN MD_OVERTEMP ELSE MD_OK
       IN  call'.ret = expect /\ drv'.boards[call'.ix] = expect]_vars

\* C36: check_stall on a board that is MD_OK, when the read of DRV_STATUS
\* succeeds, returns true (1) exactly when bit 24 of the value read, the
\* StallGuard flag, is set.
C36_StallIsBit24 ==
  [][(call'.op = "check_stall" /\ call'.ix \in Boards
        /\ drv.boards[call'.ix] = MD_OK /\ call'.answered) =>
       call'.ret = (call'.value \div 16777216) % 2]_vars

\* C37: when the loop is entered (tick 0, nothing executed yet) the discharge
\* FSM is in WaitingIgnition with successive_shorts = 0 and the phase timer
\* at 0, in every run.
C37_SameStartEveryRun ==
  (pc = "loop" /\ tick = 0) =>
    ed = [state |-> ED_DRILL_WAITING_IGNITION, successive_shorts |-> 0, timer |-> 0]

\* C38: while the loop runs, max_successive_short is at least
\* successive_shorts after every tick, the ticks in which a snapshot has
\* just reset max_successive_short to 0 included.
C38_MaxCoversCurrent ==
  pc = "loop" => stats.max_successive_short >= ed.successive_shorts

C38_Witness ==
  /\ pc = "loop"
  /\ n_dump = 1
  /\ stats.n_short >= 1
  /\ stats.max_successive_short = 0
  /\ ed.successive_shorts = 0
  /\ ed.state = ED_DRILL_COOLDOWN
  /\ tick = stats.last_dump_tick + 1

\* C39: a reading of the clock that comes at least 1 us after the time at
\* which tick was set ends the busy-wait, whatever the elapsed time is.
C39_WaitEndsAtNextMicrosecond ==
  [][(pc = "wait" /\ clock'.polls # clock.polls
        /\ us_later(clock'.now, clock.at)) =>
       pc' = "woke"]_vars

====
